---- MODULE Spec2Model ----
(***************************************************************************)
(* Model of the LLM-QA repository: the Flask form front-end (app.py) and   *)
(* the command-line tool (LLM_QA_CLI.py).  A Python str is a sequence of   *)
(* one-character strings; the functions of the two files are operators     *)
(* computed the way the code computes them, and the two entry points are   *)
(* actions that run one whole request / one whole invocation.              *)
(***************************************************************************)
EXTENDS Integers, Sequences, FiniteSets, TLC

VARIABLES
    program,      \* which script the process runs: "app" or "cli"
    libAvailable, \* whether the Gemini client library can be imported
    apiKey,       \* os.getenv("GEMINI_API_KEY"): None, "" or a key
    pc,           \* "boot", "ready", "crashed" (uncaught error) or "exited"
    genai,        \* the module-level name genai: "module", or "None" (CLI import fallback)
    request,      \* the input of the last request / invocation
    view,         \* what the last request rendered / printed
    excs,         \* the exception its handler caught, and the one that escaped it
    trace,        \* the calls made while handling the last request, in order
    sent,         \* the payload handed to generate_content by the last request
    fnName,       \* unit level: the function applied ("none" before the call)
    fnArg,        \* unit level: its argument
    fnOut         \* unit level: the outcomes of its applications, in order

vars == <<program, libAvailable, apiKey, pc, genai, request, view, excs, trace,
          sent, fnName, fnArg, fnOut>>

-----------------------------------------------------------------------------
(* Bounds of the model.                                                    *)

MaxLen == 3       \* longest enumerated question string
MaxArgs == 2      \* most command-line arguments enumerated
MaxWordLen == 1   \* longest enumerated command-line argument

-----------------------------------------------------------------------------
(* Python values.                                                          *)

\* Python's None, as a value comparable with a str: a one-element tuple whose
\* element is not a character.
None == <<"<None>">>

\* The characters the enumerated inputs are drawn from: a lowercase and an
\* uppercase ASCII letter, a digit, the underscore, two whitespace characters,
\* a punctuation mark and a non-ASCII letter.
Alphabet == {"a", "A", "2", "_", " ", "\t", "?", "é"}

AsciiLower == <<"a","b","c","d","e","f","g","h","i","j","k","l","m",
                "n","o","p","q","r","s","t","u","v","w","x","y","z">>
AsciiUpper == <<"A","B","C","D","E","F","G","H","I","J","K","L","M",
                "N","O","P","Q","R","S","T","U","V","W","X","Y","Z">>
Digits == {"0","1","2","3","4","5","6","7","8","9"}
NonAsciiLetters == {"é"}

Range(f) == {f[i] : i \in DOMAIN f}

\* str.isspace(), the class re's \s matches on a str pattern.
IsSpace(c) == c \in {" ", "\t", "\n", "\r", "\f"}

\* re's \w on a str pattern: Unicode letters and digits, and the underscore.
IsWord(c) ==
    c \in Range(AsciiLower) \cup Range(AsciiUpper) \cup Digits \cup {"_"} \cup NonAsciiLetters

\* A case conversion that goes the wrong way on lowercase letters (swapcase).
LowerChar_swapcase(c) ==
    IF c \in Range(AsciiUpper)
    THEN AsciiLower[CHOOSE i \in DOMAIN AsciiUpper : AsciiUpper[i] = c]
    ELSE IF c \in Range(AsciiLower)
    THEN AsciiUpper[CHOOSE i \in DOMAIN AsciiLower : AsciiLower[i] = c]
    ELSE c

\* str.lower() on one character.
LowerChar(c) ==
    IF c \in Range(AsciiUpper)
    THEN AsciiLower[CHOOSE i \in DOMAIN AsciiUpper : AsciiUpper[i] = c]
    ELSE c

\* str.lower()
Lower(s) == [i \in DOMAIN s |-> LowerChar(s[i])]

RECURSIVE LStrip(_)
LStrip(s) == IF s # <<>> /\ IsSpace(Head(s)) THEN LStrip(Tail(s)) ELSE s

RECURSIVE RStrip(_)
RStrip(s) ==
    IF s # <<>> /\ IsSpace(s[Len(s)]) THEN RStrip(SubSeq(s, 1, Len(s) - 1)) ELSE s

\* The call to strip() forgotten.
Strip_forgotten(s) == s

\* str.strip()
Strip(s) == RStrip(LStrip(s))

\* re.sub(r"[^\w\s]", "", s)
RemoveNonWord(s) == SelectSeq(s, LAMBDA c : IsWord(c) \/ IsSpace(c))

\* re.sub(r"\s+", " ", s): every maximal run of whitespace becomes one space.
RECURSIVE CollapseSpace(_)
CollapseSpace(s) ==
    IF s = <<>> THEN <<>>
    ELSE IF IsSpace(Head(s)) THEN <<" ">> \o CollapseSpace(LStrip(s))
    ELSE <<Head(s)>> \o CollapseSpace(Tail(s))

\* The first token of a string that starts with a non-whitespace character.
RECURSIVE FirstToken(_)
FirstToken(s) ==
    IF s = <<>> \/ IsSpace(Head(s)) THEN <<>> ELSE <<Head(s)>> \o FirstToken(Tail(s))

\* str.split(): the maximal runs of non-whitespace characters.
RECURSIVE Split(_)
Split(s) ==
    LET t == LStrip(s)
        w == FirstToken(t)
    IN IF t = <<>> THEN <<>>
       ELSE <<w>> \o Split(SubSeq(t, Len(w) + 1, Len(t)))

\* " ".join(parts)
RECURSIVE Join(_)
Join(parts) ==
    IF parts = <<>> THEN <<>>
    ELSE IF Len(parts) = 1 THEN parts[1]
    ELSE parts[1] \o <<" ">> \o Join(Tail(parts))

\* repr() of a list of str holding no quote, backslash or control character.
RECURSIVE ReprItems(_)
ReprItems(tokens) ==
    IF tokens = <<>> THEN <<>>
    ELSE IF Len(tokens) = 1 THEN <<"'">> \o tokens[1] \o <<"'">>
    ELSE <<"'">> \o tokens[1] \o <<"'", ",", " ">> \o ReprItems(Tail(tokens))

Repr(tokens) == <<"[">> \o ReprItems(tokens) \o <<"]">>

\* Python truthiness of an Optional[str]: None and "" are falsy.
Falsy(s) == s = None \/ s = <<>>

\* The outcome of a call: a returned value or a raised exception.
NoExc == [type |-> "none", msg |-> <<>>]
Ok(v) == [raised |-> FALSE, value |-> v, exc |-> NoExc]
Raise(t, m) == [raised |-> TRUE, value |-> None, exc |-> [type |-> t, msg |-> m]]

\* sub occurs in s as a contiguous substring.
Contains(s, sub) ==
    \E i \in 0..(Len(s) - Len(sub)) : SubSeq(s, i + 1, i + Len(sub)) = sub

\* All strings over A of length at most n.
StringsUpTo(A, n) == UNION {[1..k -> A] : k \in 0..n}

-----------------------------------------------------------------------------
(* The external generative-model service.                                  *)

\* What one generate_content call can do: return a response with a text,
\* return a response whose text is None, or raise a service error.
ServiceOutcomes ==
    { [kind |-> "text",   text |-> <<" ", "4", "\n">>],
      [kind |-> "notext", text |-> None],
      [kind |-> "error",  text |-> <<"q","u","o","t","a">>] }

\* The values os.getenv("GEMINI_API_KEY") can have: unset, empty, set.
ApiKeys == {None, <<>>, <<"k">>}

\* The exception classes the model raises; all are subclasses of Exception.
ExceptionTypes == {"RuntimeError", "ServiceError", "AttributeError"}

\* The payload of a request that did not call generate_content.
NothingSent == [model |-> "none", contents |-> None, system_instruction |-> None]

\* A template variable render_template was not given.
Undefined == <<"<undefined>">>

\* str(e) of the AttributeError raised by None.strip().
NoneStripMsg ==
    <<"'","N","o","n","e","T","y","p","e","'"," ","o","b","j","e","c","t"," ","h","a","s"," ","n","o"," ","a","t","t","r","i","b","u","t","e"," ","'","s","t","r","i","p","'">>

-----------------------------------------------------------------------------
(* app.py                                                                  *)

MODEL_NAME == "gemini-2.5-flash"

SYSTEM_PROMPT ==
    <<"Y","o","u"," ","a","r","e"," ","a"," ","c","o","n","c","i","s","e"," ","a","n","d"," ","f","a","c","t","u","a","l"," ","q","u","e","s","t","i","o","n","-","a","n","s","w","e","r","i","n","g"," ","a","s","s","i","s","t","a","n","t","."," ","A","n","s","w","e","r"," ","c","l","e","a","r","l","y"," ","a","n","d"," ","d","i","r","e","c","t","l","y"," ","t","o"," ","t","h","e"," ","u","s","e","r"," ","q","u","e","r","y",".">>

QuestionPrefix ==
    <<"Q","u","e","s","t","i","o","n",":"," ">>

AppKeyMsg ==
    <<"L","L","M"," ","A","P","I"," ","k","e","y"," ","i","s"," ","n","o","t"," ","s","e","t"," ","i","n"," ","e","n","v","i","r","o","n","m","e","n","t">>

EmptyQuestionMsg ==
    <<"P","l","e","a","s","e"," ","p","r","o","v","i","d","e"," ","a"," ","q","u","e","s","t","i","o","n"," ","b","e","f","o","r","e"," ","s","u","b","m","i","t","t","i","n","g",".">>

InternalErrorPrefix ==
    <<"A","n"," ","i","n","t","e","r","n","a","l"," ","e","r","r","o","r"," ","o","c","c","u","r","r","e","d"," ","w","h","i","l","e"," ","c","o","n","t","a","c","t","i","n","g"," ","t","h","e"," ","L","L","M",":"," ">>

\* normalize_text without the guard of its first two lines.
normalize_text_noguard(s) ==
    IF s = None THEN Raise("AttributeError", NoneStripMsg)
    ELSE Ok(CollapseSpace(RemoveNonWord(Lower(Strip(s)))))

normalize_text(s) ==
    IF Falsy(s) THEN Ok(<<>>)
    ELSE Ok(CollapseSpace(RemoveNonWord(Lower(Strip(s)))))

\* call_llm testing the key against None only, so that an empty key passes.
call_llm_noneonly(question, key, outcome) ==
    IF key = None
    THEN [res |-> Raise("RuntimeError", AppKeyMsg), calls |-> <<>>, sent |-> NothingSent]
    ELSE [res |-> IF outcome.kind = "error"
                  THEN Raise("ServiceError", outcome.text)
                  ELSE Ok(outcome.text),
          calls |-> <<"genai.Client", "generate_content">>,
          sent |-> [model |-> MODEL_NAME, contents |-> QuestionPrefix \o question,
                    system_instruction |-> SYSTEM_PROMPT]]

\* call_llm: the outcome, the calls made on the client library, and the
\* payload handed to generate_content.
call_llm(question, key, outcome) ==
    IF Falsy(key)
    THEN [res |-> Raise("RuntimeError", AppKeyMsg), calls |-> <<>>, sent |-> NothingSent]
    ELSE LET prompt == QuestionPrefix \o question
             payload == [model |-> MODEL_NAME, contents |-> prompt,
                         system_instruction |-> SYSTEM_PROMPT]
         IN [res |-> IF outcome.kind = "error"
                     THEN Raise("ServiceError", outcome.text)
                     ELSE Ok(outcome.text),
             calls |-> <<"genai.Client", "generate_content">>,
             sent |-> payload]

\* render_template given the normalized question as the question.
Render_swapped(question, processed, answer, error) ==
    [template |-> "index.html", question |-> processed,
     processed_question |-> processed, llm_response |-> answer,
     error |-> error]

\* render_template("index.html", ...)
Render(question, processed, answer, error) ==
    [template |-> "index.html", question |-> question,
     processed_question |-> processed, llm_response |-> answer,
     error |-> error]

\* A request whose handler let an exception escape: no page is rendered
\* (Flask answers 500).
Unhandled ==
    [template |-> "none", question |-> Undefined,
     processed_question |-> Undefined, llm_response |-> Undefined,
     error |-> Undefined]

\* The exceptions of one request: the one its handler caught and the one
\* that escaped it.
Excs(caught, escaped) == [caught |-> caught, escaped |-> escaped]

\* home: one whole request.  form is the value of the form field "question",
\* or None when the field is missing.  The result is the rendered page, the
\* exceptions, the calls made and the payload sent to the service.
home(method, form, key, outcome) ==
    IF method = "POST"
    THEN LET original == Strip(IF form = None THEN <<>> ELSE form)
         IN IF original = <<>>
            THEN [view |-> Render(Undefined, Undefined, Undefined, EmptyQuestionMsg),
                  excs |-> Excs(NoExc, NoExc),
                  trace |-> <<"render_template">>, sent |-> NothingSent]
            ELSE LET n == normalize_text(original)
                     r == call_llm(n.value, key, outcome)
                 IN IF n.raised
                    THEN [view |-> Unhandled, excs |-> Excs(NoExc, n.exc),
                          trace |-> <<"normalize_text">>, sent |-> NothingSent]
                    ELSE IF ~r.res.raised
                    THEN [view |-> Render(original, n.value, r.res.value, <<>>),
                          excs |-> Excs(NoExc, NoExc),
                          trace |-> <<"normalize_text", "call_llm">> \o r.calls
                                       \o <<"render_template">>,
                          sent |-> r.sent]
                    ELSE IF r.res.exc.type \in ExceptionTypes
                    THEN [view |-> Render(original, n.value, <<>>,
                                          InternalErrorPrefix \o r.res.exc.msg),
                          excs |-> Excs(r.res.exc, NoExc),
                          trace |-> <<"normalize_text", "call_llm">> \o r.calls
                                       \o <<"render_template">>,
                          sent |-> r.sent]
                    ELSE [view |-> Unhandled, excs |-> Excs(NoExc, r.res.exc),
                          trace |-> <<"normalize_text", "call_llm">> \o r.calls,
                          sent |-> r.sent]
    ELSE [view |-> Render(<<>>, <<>>, <<>>, <<>>), excs |-> Excs(NoExc, NoExc),
          trace |-> <<"render_template">>, sent |-> NothingSent]

-----------------------------------------------------------------------------
(* LLM_QA_CLI.py                                                           *)

CLI_MODEL_NAME == "gemini-2.0-flash"

CliPreamble ==
    <<"Y","o","u"," ","a","r","e"," ","a","n"," ","e","x","p","e","r","t"," ","a","s","s","i","s","t","a","n","t","."," ","A","n","s","w","e","r"," ","c","o","n","c","i","s","e","l","y"," ","a","n","d"," ","c","l","e","a","r","l","y",".","\n">>

AnswerSuffix ==
    <<"\n","A","n","s","w","e","r",":">>

CliLibMsg ==
    <<"g","o","o","g","l","e","-","g","e","n","e","r","a","t","i","v","e","a","i"," ","p","a","c","k","a","g","e"," ","n","o","t"," ","i","n","s","t","a","l","l","e","d","."," ","I","n","s","t","a","l","l"," ","w","i","t","h",":"," ","p","i","p"," ","i","n","s","t","a","l","l"," ","g","o","o","g","l","e","-","g","e","n","e","r","a","t","i","v","e","a","i">>

CliKeyMsg ==
    <<"G","E","M","I","N","I","_","A","P","I","_","K","E","Y"," ","e","n","v","i","r","o","n","m","e","n","t"," ","v","a","r","i","a","b","l","e"," ","n","o","t"," ","s","e","t">>

FailedPrefix ==
    <<"[","L","L","M"," ","c","a","l","l"," ","f","a","i","l","e","d",":"," ">>

FallbackMiddle ==
    <<"]","\n","A","s"," ","a"," ","f","a","l","l","b","a","c","k",","," ","r","e","t","u","r","n","i","n","g"," ","p","r","o","c","e","s","s","e","d"," ","q","u","e","s","t","i","o","n"," ","t","o","k","e","n","s",".","\n">>

ProcessedLabel ==
    <<"P","r","o","c","e","s","s","e","d",":"," ">>

TokensLabel ==
    <<"\n","T","o","k","e","n","s",":"," ">>

ProcessedHeader ==
    <<"\n","P","r","o","c","e","s","s","e","d"," ","q","u","e","s","t","i","o","n",":","\n">>

AnswerHeader ==
    <<"\n","A","n","s","w","e","r",":","\n">>

\* preprocess tokenizing the text before the punctuation is removed.
preprocess_rawtokens(text) ==
    IF text = None THEN Raise("AttributeError", NoneStripMsg)
    ELSE LET t == Lower(Strip(text))
         IN Ok([text |-> RemoveNonWord(t), tokens |-> Split(t)])

preprocess(text) ==
    IF text = None THEN Raise("AttributeError", NoneStripMsg)
    ELSE LET t == RemoveNonWord(Lower(Strip(text)))
         IN Ok([text |-> t, tokens |-> Split(t)])

\* construct_prompt with the label written without its space.
construct_prompt_nospace(processed_question) ==
    CliPreamble \o <<"Q","u","e","s","t","i","o","n",":">> \o processed_question
        \o AnswerSuffix

construct_prompt(processed_question) ==
    CliPreamble \o QuestionPrefix \o processed_question \o AnswerSuffix

\* call_gemini calling generate_content a second time after a service error.
call_gemini_retry(prompt, lib, key, outcome) ==
    IF lib = "None"
    THEN [res |-> Raise("RuntimeError", CliLibMsg), calls |-> <<>>, sent |-> NothingSent]
    ELSE IF Falsy(key)
    THEN [res |-> Raise("RuntimeError", CliKeyMsg), calls |-> <<>>, sent |-> NothingSent]
    ELSE [res |-> IF outcome.kind = "error" THEN Raise("ServiceError", outcome.text)
                  ELSE IF outcome.text = None
                  THEN Raise("AttributeError", NoneStripMsg)
                  ELSE Ok(Strip(outcome.text)),
          calls |-> IF outcome.kind = "error"
                    THEN <<"genai.configure", "genai.GenerativeModel",
                           "generate_content", "generate_content">>
                    ELSE <<"genai.configure", "genai.GenerativeModel",
                           "generate_content">>,
          sent |-> [model |-> CLI_MODEL_NAME, contents |-> prompt,
                    system_instruction |-> None]]

\* call_gemini: the outcome, the calls made on the client library, and the
\* payload handed to generate_content.  lib is the module-level name genai.
call_gemini(prompt, lib, key, outcome) ==
    IF lib = "None"
    THEN [res |-> Raise("RuntimeError", CliLibMsg), calls |-> <<>>, sent |-> NothingSent]
    ELSE IF Falsy(key)
    THEN [res |-> Raise("RuntimeError", CliKeyMsg), calls |-> <<>>, sent |-> NothingSent]
    ELSE [res |-> IF outcome.kind = "error" THEN Raise("ServiceError", outcome.text)
                  ELSE IF outcome.text = None
                  THEN Raise("AttributeError", NoneStripMsg)
                  ELSE Ok(Strip(outcome.text)),
          calls |-> <<"genai.configure", "genai.GenerativeModel", "generate_content">>,
          sent |-> [model |-> CLI_MODEL_NAME, contents |-> prompt,
                    system_instruction |-> None]]

\* print(header, value): the two arguments separated by a space, then a newline.
PrintLine(header, value) == header \o <<" ">> \o value \o <<"\n">>

\* An invocation that ended in an uncaught exception: nothing is printed.
Crashed == [stdout |-> <<>>, processed |-> Undefined, answer |-> Undefined]

\* main: one whole invocation.  argv is sys.argv[1:], line is what input()
\* returns when there are no arguments.  The result is what was printed, the
\* exceptions, the calls made and the payload sent to the service.
main(argv, line, lib, key, outcome) ==
    LET question == IF Len(argv) > 0 THEN Join(argv) ELSE line
        p == preprocess(question)
        processed == p.value.text
        tokens == p.value.tokens
        prompt == construct_prompt(processed)
        r == call_gemini(prompt, lib, key, outcome)
        answer == IF ~r.res.raised THEN r.res.value
                  ELSE FailedPrefix \o r.res.exc.msg \o FallbackMiddle
                       \o ProcessedLabel \o processed
                       \o TokensLabel \o Repr(tokens)
    IN IF p.raised
       THEN [view |-> Crashed, excs |-> Excs(NoExc, p.exc),
             trace |-> <<"preprocess">>, sent |-> NothingSent]
       ELSE IF r.res.raised /\ r.res.exc.type \notin ExceptionTypes
       THEN [view |-> Crashed, excs |-> Excs(NoExc, r.res.exc),
             trace |-> <<"preprocess", "construct_prompt", "call_gemini">> \o r.calls,
             sent |-> r.sent]
       ELSE [view |-> [stdout |-> PrintLine(ProcessedHeader, processed)
                                    \o PrintLine(AnswerHeader, answer),
                       processed |-> processed, answer |-> answer],
             excs |-> Excs(r.res.exc, NoExc),
             trace |-> <<"preprocess", "construct_prompt", "call_gemini">> \o r.calls
                          \o <<"print", "print">>,
             sent |-> r.sent]

-----------------------------------------------------------------------------
(* The inputs the actions draw from.                                       *)

Questions == StringsUpTo(Alphabet, MaxLen)

\* The value of the form field "question"; None when the field is missing.
Forms == Questions \cup {None}

\* The scenario of the documentation: LLM_QA_CLI.py What is 2+2?
ExampleArgv == << <<"W","h","a","t">>, <<"i","s">>, <<"2","+","2","?">> >>

\* The characters the enumerated command-line arguments are drawn from.
ArgAlphabet == {"A", "?", " "}

Words == StringsUpTo(ArgAlphabet, MaxWordLen)

\* sys.argv[1:] when at least one argument is given.
Argvs == UNION {[1..k -> Words] : k \in 1..MaxArgs} \cup {ExampleArgv}

NoRequest == [kind |-> "none"]
NoView == [kind |-> "none"]

-----------------------------------------------------------------------------
(* The process: module import, then requests (app.py) or one run (CLI).    *)

Init ==
    /\ program \in {"app", "cli"}
    /\ libAvailable \in BOOLEAN
    /\ apiKey \in ApiKeys
    /\ pc = "boot"
    /\ genai = "unbound"
    /\ request = NoRequest
    /\ view = NoView
    /\ excs = Excs(NoExc, NoExc)
    /\ trace = <<>>
    /\ sent = NothingSent
    /\ fnName = "none"
    /\ fnArg = None
    /\ fnOut = <<>>

\* app.py lines 6-12: the imports at module level are not guarded; a missing
\* client library ends the process with an ImportError before it serves.
ImportApp ==
    /\ program = "app"
    /\ pc = "boot"
    /\ pc' = IF libAvailable THEN "ready" ELSE "crashed"
    /\ genai' = IF libAvailable THEN "module" ELSE genai
    /\ UNCHANGED <<program, libAvailable, apiKey, request, view, excs, trace,
                   sent, fnName, fnArg, fnOut>>

\* LLM_QA_CLI.py lines 11-14: the import is guarded and falls back to None.
ImportCli ==
    /\ program = "cli"
    /\ pc = "boot"
    /\ pc' = "ready"
    /\ genai' = IF libAvailable THEN "module" ELSE "None"
    /\ UNCHANGED <<program, libAvailable, apiKey, request, view, excs, trace,
                   sent, fnName, fnArg, fnOut>>

Handle(req, h, nextPc) ==
    /\ request' = req
    /\ view' = h.view
    /\ excs' = h.excs
    /\ trace' = h.trace
    /\ sent' = h.sent
    /\ pc' = nextPc
    /\ UNCHANGED <<program, libAvailable, apiKey, genai, fnName, fnArg, fnOut>>

HomeGet ==
    /\ program = "app"
    /\ pc = "ready"
    /\ request = NoRequest
    /\ \E outcome \in ServiceOutcomes :
          Handle([kind |-> "GET", form |-> None, service |-> outcome],
                 home("GET", None, apiKey, outcome), "ready")

HomePost ==
    /\ program = "app"
    /\ pc = "ready"
    /\ request = NoRequest
    /\ \E form \in Forms, outcome \in ServiceOutcomes :
          Handle([kind |-> "POST", form |-> form, service |-> outcome],
                 home("POST", form, apiKey, outcome), "ready")

\* The response has been returned: the request-scoped values (the locals of
\* home) are gone and the server waits for the next request.
EndRequest ==
    /\ program = "app"
    /\ pc = "ready"
    /\ request # NoRequest
    /\ request' = NoRequest
    /\ view' = NoView
    /\ excs' = Excs(NoExc, NoExc)
    /\ trace' = <<>>
    /\ sent' = NothingSent
    /\ UNCHANGED <<program, libAvailable, apiKey, pc, genai, fnName, fnArg, fnOut>>

RunMain(argv, line, outcome) ==
    LET m == main(argv, line, genai, apiKey, outcome)
    IN Handle([kind |-> "cli", argv |-> argv, line |-> line, service |-> outcome],
              m, IF m.excs.escaped = NoExc THEN "exited" ELSE "crashed")

\* The CLI invoked with the question as trailing arguments.
MainArgs ==
    /\ program = "cli"
    /\ pc = "ready"
    /\ \E argv \in Argvs, outcome \in ServiceOutcomes : RunMain(argv, <<>>, outcome)

\* The CLI invoked without arguments: the question is the line input() returns.
MainInteractive ==
    /\ program = "cli"
    /\ pc = "ready"
    /\ \E line \in Questions, outcome \in ServiceOutcomes : RunMain(<<>>, line, outcome)

Next ==
    ImportApp \/ ImportCli \/ HomeGet \/ HomePost \/ EndRequest
        \/ MainArgs \/ MainInteractive

Spec == Init /\ [][Next]_vars

-----------------------------------------------------------------------------
(* The functions on their own: one argument, applied once and then again   *)
(* to its own result.                                                      *)

FnArgs == Questions \cup {None}

InitFn ==
    /\ program = "unit"
    /\ libAvailable = TRUE
    /\ apiKey = None
    /\ pc = "ready"
    /\ genai = "module"
    /\ request = NoRequest
    /\ view = NoView
    /\ excs = Excs(NoExc, NoExc)
    /\ trace = <<>>
    /\ sent = NothingSent
    /\ fnName = "none"
    /\ fnArg \in FnArgs
    /\ fnOut = <<>>

Apply(name, out) ==
    /\ fnName' = name
    /\ fnOut' = Append(fnOut, out)
    /\ UNCHANGED <<program, libAvailable, apiKey, pc, genai, request, view,
                   excs, trace, sent, fnArg>>

CallNormalizeText ==
    /\ fnName = "none"
    /\ Apply("normalize_text", normalize_text(fnArg))

CallPreprocess ==
    /\ fnName = "none"
    /\ Apply("preprocess", preprocess(fnArg))

\* normalize_text applied to its own result.
RenormalizeText ==
    /\ fnName = "normalize_text"
    /\ Len(fnOut) = 1
    /\ ~fnOut[1].raised
    /\ Apply("normalize_text", normalize_text(fnOut[1].value))

\* preprocess applied to the text it returned.
RePreprocess ==
    /\ fnName = "preprocess"
    /\ Len(fnOut) = 1
    /\ ~fnOut[1].raised
    /\ Apply("preprocess", preprocess(fnOut[1].value.text))

NextFn ==
    CallNormalizeText \/ CallPreprocess \/ RenormalizeText \/ RePreprocess

SpecFn == InitFn /\ [][NextFn]_vars

-----------------------------------------------------------------------------
(* Properties.                                                             *)

\* The text returned by the i-th application at unit level.
OutText(i) == IF fnName = "preprocess" THEN fnOut[i].value.text ELSE fnOut[i].value

\* A character of [a-z0-9_] or whitespace.
AllowedChar(c) == c \in Range(AsciiLower) \cup Digits \cup {"_"} \/ IsSpace(c)

\* Only allowed characters, no whitespace at either end, no two adjacent
\* whitespace characters.
Clean(t) ==
    /\ \A i \in DOMAIN t : AllowedChar(t[i])
    /\ t # <<>> => ~IsSpace(t[1]) /\ ~IsSpace(t[Len(t)])
    /\ \A i \in 1..(Len(t) - 1) : ~(IsSpace(t[i]) /\ IsSpace(t[i + 1]))

\* C1: the output of normalize_text, and the text returned by preprocess,
\* holds only characters of [a-z0-9_] and whitespace, and has no leading,
\* trailing or doubled whitespace.  (Violated: normalize_text("? a") = " a".)
C1_NormalizedClean ==
    (fnName \in {"normalize_text", "preprocess"} /\ fnOut # <<>> /\ ~fnOut[1].raised)
        => Clean(OutText(1))

\* C2 as stated: an empty or absent input normalizes to the empty string and
\* raises nothing, in normalize_text and in preprocess.  (Violated:
\* preprocess(None) raises AttributeError.)
C2_EmptyOrAbsent ==
    (fnName \in {"normalize_text", "preprocess"} /\ fnOut # <<>> /\ Falsy(fnArg))
        => ~fnOut[1].raised /\ OutText(1) = <<>>

\* C2 as amended: normalize_text returns the empty string for the empty
\* string and for None; preprocess returns the empty text and no tokens for
\* the empty string, and raises AttributeError for None.
C2_EmptyOrAbsentAmended ==
    (fnOut # <<>> /\ Falsy(fnArg)) =>
        /\ fnName = "normalize_text" => fnOut[1] = Ok(<<>>)
        /\ (fnName = "preprocess" /\ fnArg = <<>>) =>
              fnOut[1] = Ok([text |-> <<>>, tokens |-> <<>>])
        /\ (fnName = "preprocess" /\ fnArg = None) =>
              fnOut[1].raised /\ fnOut[1].exc.type = "AttributeError"

C2_Witness ==
    fnName = "normalize_text" /\ fnArg = None /\ fnOut = <<Ok(<<>>)>>

\* The handler of the last request invoked the model client.
ClientInvoked == {"call_llm", "call_gemini"} \cap Range(trace) # {}

\* The calls that construct a client or reach the service.
ServiceCalls ==
    {"genai.Client", "genai.configure", "genai.GenerativeModel", "generate_content"}

\* C3: with GEMINI_API_KEY unset or empty, invoking the model client fails
\* with a RuntimeError, no client is constructed, generate_content is not
\* called and nothing is sent to the service.
C3_NoKeyNoCall ==
    (ClientInvoked /\ Falsy(apiKey)) =>
        /\ excs.caught.type = "RuntimeError"
        /\ ServiceCalls \cap Range(trace) = {}
        /\ sent = NothingSent

C3_Witness ==
    /\ program = "app"
    /\ apiKey = <<>>
    /\ "call_llm" \in Range(trace)
    /\ excs.caught = [type |-> "RuntimeError", msg |-> AppKeyMsg]

\* C4: in every entry point no configuration or service error crashes the
\* process or escapes the handler of a request.  (Violated: app.py started
\* without the client library ends with an ImportError at its imports.)
C4_NoErrorEscapes == pc # "crashed" /\ excs.escaped = NoExc

\* The form field is missing, empty or only whitespace.
Blank(form) == form = None \/ \A i \in DOMAIN form : IsSpace(form[i])

\* C5: a POST whose question is missing, empty or only whitespace is rejected
\* with a non-empty message, and neither normalize_text nor call_llm is
\* invoked.
C5_EmptyRejected ==
    (request.kind = "POST" /\ Blank(request.form)) =>
        /\ view.error \notin {<<>>, Undefined, None}
        /\ {"normalize_text", "call_llm"} \cap Range(trace) = {}
        /\ ServiceCalls \cap Range(trace) = {}
        /\ sent = NothingSent

C5_Witness ==
    /\ request.kind = "POST"
    /\ request.form = <<" ", "\t">>
    /\ view.error = EmptyQuestionMsg

\* The model call of the last web request fails: no key, or the service raises.
WebCallFails == Falsy(apiKey) \/ request.service.kind = "error"

\* q is raw without the whitespace at its two ends.
IsTrimOf(q, raw) ==
    /\ q # <<>> => ~IsSpace(q[1]) /\ ~IsSpace(q[Len(q)])
    /\ \E i \in 0..Len(raw) :
          /\ i + Len(q) <= Len(raw)
          /\ q = SubSeq(raw, i + 1, i + Len(q))
          /\ \A k \in (1..i) \cup ((i + Len(q) + 1)..Len(raw)) : IsSpace(raw[k])

\* C6: a POST with a non-empty question whose model call fails renders a
\* non-empty error, the original question, its normalized form and an empty
\* answer; and every request ends by rendering index.html.
C6_FailureRendered ==
    /\ (request.kind = "POST" /\ ~Blank(request.form) /\ WebCallFails) =>
          /\ view.error \notin {<<>>, Undefined, None}
          /\ IsTrimOf(view.question, request.form)
          /\ view.processed_question = normalize_text(view.question).value
          /\ view.llm_response = <<>>
    /\ request.kind \in {"GET", "POST"} =>
          /\ view.template = "index.html"
          /\ trace[Len(trace)] = "render_template"

C6_Witness ==
    /\ request.kind = "POST"
    /\ request.form = <<" ", "A", "?">>
    /\ request.service.kind = "error"
    /\ apiKey = <<"k">>
    /\ view.question = <<"A", "?">>
    /\ view.processed_question = <<"a">>
    /\ view.error = InternalErrorPrefix \o request.service.text

\* The question the CLI read: the arguments joined by spaces, or the line.
CliQuestion == IF Len(request.argv) > 0 THEN Join(request.argv) ELSE request.line

\* The model call of the last CLI run fails.
CliCallFails ==
    genai = "None" \/ Falsy(apiKey) \/ request.service.kind \in {"error", "notext"}

\* The message of the error it fails with.
CliErrorMsg ==
    IF genai = "None" THEN CliLibMsg
    ELSE IF Falsy(apiKey) THEN CliKeyMsg
    ELSE IF request.service.kind = "error" THEN request.service.text
    ELSE NoneStripMsg

ExampleNormalized ==
    <<"w","h","a","t"," ","i","s"," ","2","2">>

ExpectedProcessed ==
    <<"P","r","o","c","e","s","s","e","d",":"," ","w","h","a","t"," ","i","s"," ","2","2">>

ExpectedTokens ==
    <<"T","o","k","e","n","s",":"," ","[","'","w","h","a","t","'",","," ","'","i","s","'",","," ","'","2","2","'","]">>

WordOrSpaceOnly(s) == \A i \in DOMAIN s : IsWord(s[i]) \/ IsSpace(s[i])

\* C8: on a string of letters, digits, underscores and whitespace only,
\* normalizing the result again returns it unchanged, for normalize_text and
\* for the text of preprocess.
C8_Idempotent ==
    (Len(fnOut) = 2 /\ fnArg # None /\ WordOrSpaceOnly(fnArg)) =>
        /\ ~fnOut[1].raised
        /\ ~fnOut[2].raised
        /\ OutText(2) = OutText(1)

C8_Witness ==
    /\ fnName = "normalize_text"
    /\ fnArg = <<"A", "\t", "_">>
    /\ Len(fnOut) = 2
    /\ fnOut[1].value = <<"a", " ", "_">>

\* C9: the prompt sent to the model holds "Question: " followed by the
\* normalized question (the one shown to the user, normalized from the raw
\* input), in the CLI and in the web variant.
C9_PromptHasQuestion ==
    sent # NothingSent =>
        /\ program = "app" =>
              /\ view.processed_question = normalize_text(Strip(request.form)).value
              /\ Contains(sent.contents, QuestionPrefix \o view.processed_question)
        /\ program = "cli" =>
              /\ view.processed = preprocess(CliQuestion).value.text
              /\ Contains(sent.contents, QuestionPrefix \o view.processed)

C9_Witness ==
    /\ program = "cli"
    /\ request.kind = "cli"
    /\ request.argv = ExampleArgv
    /\ sent # NothingSent
    /\ Contains(sent.contents, QuestionPrefix \o ExampleNormalized)

\* C10: a request or CLI run calls the service at most once: after
\* generate_content, failed or not, the handler only renders or prints.
C10_SingleCall ==
    \A i \in DOMAIN trace :
        trace[i] = "generate_content" =>
            \A j \in (i + 1)..Len(trace) : trace[j] \in {"render_template", "print"}

C10_Witness ==
    /\ request.kind = "cli"
    /\ request.service.kind = "error"
    /\ excs.caught.type = "ServiceError"
    /\ "generate_content" \in Range(trace)

====
